---- MODULE Spec2Model ----
(***************************************************************************)
(* locator::local_strategy (src/locator/local_strategy.cc), the class      *)
(* registry it registers with at static-initialisation time, and the       *)
(* callers that create, validate and query it.                             *)
(***************************************************************************)
EXTENDS Integers, FiniteSets, Sequences, TLC

VARIABLES
    pc,                 \* position of process start-up
    classes,            \* the class registry: a set of <<name, factory>>
    startup_error,      \* the registration that aborted start-up, or NoError
    broadcast_address,  \* utils::fb_utilities' broadcast address of this node
    topology,           \* the topology provider's current snapshot
    strategies,         \* the strategy instances that were created
    rejected,           \* the creations that configuration validation refused
    ctx                 \* one caller per execution context

vars == <<pc, classes, startup_error, broadcast_address, topology,
          strategies, rejected, ctx>>

-----------------------------------------------------------------------------
(* Bounds and the small sets inputs are drawn from *)

MaxToken == 1
MaxEpoch == 1

Tokens == 0..MaxToken
Endpoints == {"10.0.0.1", "10.0.0.2"}
Contexts == {"shard0", "shard1"}
OptionNames == {"replication_factor"}
OptionValues == {"3"}

\* replication_strategy_config_options: a map from option name to value
ConfigOptions == UNION {[K -> OptionValues] : K \in SUBSET OptionNames}

NoError == [name |-> "", registered |-> "", refused |-> ""]

-----------------------------------------------------------------------------
(* local_strategy *)

\* utils::fb_utilities::get_broadcast_address()
get_broadcast_address == broadcast_address

make_ready_future(v) == [state |-> "ready", value |-> v]

\* variant: the constructor passes the wrong replication_strategy_type
local_strategy_simple_tag(config_options) ==
    [type |-> "simple", config_options |-> config_options]

\* local_strategy::local_strategy(config_options)
local_strategy(config_options) ==
    [type |-> "local", config_options |-> config_options]

\* variant: the ring's members are placed next to this node
calculate_natural_endpoints_ring(this, t, tm) ==
    make_ready_future({get_broadcast_address} \cup tm.nodes)

\* variant: the live topology is read in place of the snapshot passed in
calculate_natural_endpoints_live(this, t, tm) ==
    make_ready_future(IF topology.nodes = {} THEN {} ELSE {get_broadcast_address})

\* variant: the empty-topology check of the other strategies is applied
calculate_natural_endpoints_checked(this, t, tm) ==
    IF tm.nodes = {}
    THEN [state |-> "failed", value |-> "EmptyTopology"]
    ELSE make_ready_future({get_broadcast_address})

\* future<endpoint_set> calculate_natural_endpoints(t, tm) const
calculate_natural_endpoints(this, t, tm) ==
    make_ready_future({get_broadcast_address})

\* variant: any supplied option is refused
validate_options_strict(this) ==
    [threw |-> IF DOMAIN this.config_options # {}
               THEN "InvalidConfiguration" ELSE "none",
     this |-> this]

\* void validate_options() const: what it throws, and the object afterwards
validate_options(this) == [threw |-> "none", this |-> this]

\* std::optional<std::set<sstring>> recognized_options(topology) const:
\* "return {}" value-initialises the optional, which is then disengaged
recognized_options(this, topo) == [has_value |-> FALSE, value |-> {}]

\* variant: a supplied replication_factor option is honoured
get_replication_factor_option(this, tm) ==
    IF "replication_factor" \in DOMAIN this.config_options THEN 3 ELSE 1

\* size_t get_replication_factor(tm) const
get_replication_factor(this, tm) == 1

\* variant: the replicas are taken from the map's bound snapshot
get_natural_endpoints_erm(this, t, erm) ==
    IF erm.tm.nodes = {} THEN <<>> ELSE <<CHOOSE e \in erm.tm.nodes : TRUE>>

\* inet_address_vector_replica_set get_natural_endpoints(token, erm) const
get_natural_endpoints(this, t, erm) == <<get_broadcast_address>>

\* static registry registrator("org.apache.cassandra.locator.LocalStrategy")
registrator == "org.apache.cassandra.locator.LocalStrategy"

\* variant: the short name is misspelt
registrator_short_name_misspelt == "LocalStrategey"

\* variant: the qualified name is registered twice
registrator_short_name_dup == "org.apache.cassandra.locator.LocalStrategy"

\* static registry registrator_short_name("LocalStrategy")
registrator_short_name == "LocalStrategy"

-----------------------------------------------------------------------------
(* The class registry and process start-up *)

Registered(name) == {p \in classes : p[1] = name}

\* register(name, factory): a name that is already claimed is fatal
register_class(name, factory, next) ==
    IF Registered(name) = {}
    THEN /\ classes' = classes \cup {<<name, factory>>}
         /\ pc' = next
         /\ startup_error' = startup_error
    ELSE /\ classes' = classes
         /\ pc' = "fatal"
         /\ startup_error' = [name |-> name,
                              registered |-> (CHOOSE p \in Registered(name) : TRUE)[2],
                              refused |-> factory]

InitRegistrator ==
    /\ pc = "registrator"
    /\ register_class(registrator, "local_strategy", "registrator_short_name")
    /\ UNCHANGED <<broadcast_address, topology, strategies, rejected, ctx>>

InitRegistratorShortName ==
    /\ pc = "registrator_short_name"
    /\ register_class(registrator_short_name, "local_strategy", "static_done")
    /\ UNCHANGED <<broadcast_address, topology, strategies, rejected, ctx>>

OtherVariantNames == {"SimpleStrategy", "LocalStrategy"}

OtherVariantRegistered == \E p \in classes : p[2] = "simple_strategy"

\* another translation unit's registrator, in an unspecified order with ours
InitOtherVariant ==
    /\ pc \in {"registrator", "registrator_short_name", "static_done"}
    /\ ~OtherVariantRegistered
    /\ \E name \in OtherVariantNames :
           register_class(name, "simple_strategy", pc)
    /\ UNCHANGED <<broadcast_address, topology, strategies, rejected, ctx>>

EnterMain ==
    /\ pc = "static_done"
    /\ OtherVariantRegistered
    /\ pc' = "main"
    /\ UNCHANGED <<classes, startup_error, broadcast_address, topology,
                   strategies, rejected, ctx>>

-----------------------------------------------------------------------------
(* Creation and configuration validation *)

CreateNames == {registrator, registrator_short_name, "NoSuchStrategy"}

\* create(name, options): the registered factory builds the instance
create_object(name, options) ==
    IF \E p \in Registered(name) : p[2] = "local_strategy"
    THEN local_strategy(options)
    ELSE [type |-> "UnknownStrategy", config_options |-> options]

\* configuration validation of a freshly constructed strategy
validate_replication_strategy(s, topo) ==
    LET v == validate_options(s)
        expected == recognized_options(v.this, topo)
    IN  IF v.threw # "none" THEN [error |-> v.threw, this |-> v.this]
        ELSE IF /\ expected.has_value
                /\ ~(DOMAIN v.this.config_options \subseteq expected.value)
             THEN [error |-> "UnrecognizedOption", this |-> v.this]
             ELSE [error |-> "none", this |-> v.this]

create_replication_strategy ==
    /\ pc = "main"
    /\ \E name \in CreateNames, options \in ConfigOptions :
         LET s == create_object(name, options)
             r == validate_replication_strategy(s, topology)
         IN  IF s.type = "UnknownStrategy"
             THEN UNCHANGED <<strategies, rejected>>
             ELSE IF r.error = "none"
                  THEN /\ strategies' = strategies \cup
                              {[via |-> name, options |-> options, obj |-> r.this]}
                       /\ rejected' = rejected
                  ELSE /\ rejected' = rejected \cup
                              {[via |-> name, options |-> options, error |-> r.error]}
                       /\ strategies' = strategies
    /\ UNCHANGED <<pc, classes, startup_error, broadcast_address, topology, ctx>>

-----------------------------------------------------------------------------
(* The topology provider *)

AddNode ==
    /\ pc = "main"
    /\ topology.epoch < MaxEpoch
    /\ \E e \in Endpoints \ topology.nodes :
           topology' = [nodes |-> topology.nodes \cup {e}, epoch |-> topology.epoch + 1]
    /\ UNCHANGED <<pc, classes, startup_error, broadcast_address,
                   strategies, rejected, ctx>>

RemoveNode ==
    /\ pc = "main"
    /\ topology.epoch < MaxEpoch
    /\ \E e \in topology.nodes :
           topology' = [nodes |-> topology.nodes \ {e}, epoch |-> topology.epoch + 1]
    /\ UNCHANGED <<pc, classes, startup_error, broadcast_address,
                   strategies, rejected, ctx>>

-----------------------------------------------------------------------------
(* Callers *)

Idle == [pc |-> "idle"]

Objects == {e.obj : e \in strategies}

\* a caller binds a strategy, a token and the current snapshot (for
\* get_natural_endpoints: the effective replication map of that snapshot)
Invoke(c) ==
    /\ pc = "main"
    /\ ctx[c].pc = "idle"
    /\ \E op \in {"calculate_natural_endpoints", "get_natural_endpoints"},
          s \in Objects, t \in Tokens :
           ctx' = [ctx EXCEPT ![c] =
                     [pc |-> "invoked", op |-> op, this |-> s, t |-> t, tm |-> topology]]
    /\ UNCHANGED <<pc, classes, startup_error, broadcast_address, topology,
                   strategies, rejected>>

\* the other callers executing the same call on the same arguments
InFlight(c) ==
    {d \in Contexts \ {c} :
        /\ ctx[d].pc = "invoked"
        /\ ctx[d].op = ctx[c].op
        /\ ctx[d].this = ctx[c].this
        /\ ctx[d].t = ctx[c].t
        /\ ctx[d].tm = ctx[c].tm}

Returned(c) ==
    LET a == ctx[c]
        erm == [rs |-> a.this, tm |-> a.tm]
        r == IF a.op = "calculate_natural_endpoints"
             THEN calculate_natural_endpoints(a.this, a.t, a.tm)
             ELSE get_natural_endpoints(a.this, a.t, erm)
    IN  [ctx EXCEPT ![c] = [pc |-> "returned", op |-> a.op, this |-> a.this,
                            t |-> a.t, tm |-> a.tm, result |-> r,
                            raced |-> InFlight(c) # {}]]

\* variant: the result is memoised in the shared strategy table
ReturnMemoising(c) ==
    /\ ctx[c].pc = "invoked"
    /\ ctx' = Returned(c)
    /\ strategies' = strategies \cup
           {[via |-> "memo", options |-> ctx[c].this.config_options, obj |-> ctx[c].this]}
    /\ UNCHANGED <<pc, classes, startup_error, broadcast_address, topology, rejected>>

\* the body of calculate_natural_endpoints / get_natural_endpoints runs
Return(c) ==
    /\ ctx[c].pc = "invoked"
    /\ ctx' = Returned(c)
    /\ UNCHANGED <<pc, classes, startup_error, broadcast_address, topology,
                   strategies, rejected>>

GetReplicationFactor(c) ==
    /\ pc = "main"
    /\ ctx[c].pc = "idle"
    /\ \E s \in Objects :
           ctx' = [ctx EXCEPT ![c] =
                     [pc |-> "returned", op |-> "get_replication_factor", this |-> s,
                      t |-> 0, tm |-> topology,
                      result |-> get_replication_factor(s, topology),
                      raced |-> FALSE]]
    /\ UNCHANGED <<pc, classes, startup_error, broadcast_address, topology,
                   strategies, rejected>>

Discard(c) ==
    /\ ctx[c].pc = "returned"
    /\ ctx' = [ctx EXCEPT ![c] = Idle]
    /\ UNCHANGED <<pc, classes, startup_error, broadcast_address, topology,
                   strategies, rejected>>

-----------------------------------------------------------------------------

Init ==
    /\ pc = "registrator"
    /\ classes = {}
    /\ startup_error = NoError
    /\ broadcast_address \in Endpoints
    /\ topology = [nodes |-> {broadcast_address}, epoch |-> 0]
    /\ strategies = {}
    /\ rejected = {}
    /\ ctx = [c \in Contexts |-> Idle]

Next ==
    \/ InitRegistrator
    \/ InitRegistratorShortName
    \/ InitOtherVariant
    \/ EnterMain
    \/ create_replication_strategy
    \/ AddNode
    \/ RemoveNode
    \/ \E c \in Contexts : Invoke(c)
    \/ \E c \in Contexts : Return(c)
    \/ \E c \in Contexts : GetReplicationFactor(c)
    \/ \E c \in Contexts : Discard(c)

Spec == Init /\ [][Next]_vars

-----------------------------------------------------------------------------
(* Properties *)

Done(c, op) == ctx[c].pc = "returned" /\ ctx[c].op = op

Calculated(c) == Done(c, "calculate_natural_endpoints")

Elements(seq) == {seq[i] : i \in DOMAIN seq}

SameArguments(c, d) ==
    /\ ctx[c].this = ctx[d].this
    /\ ctx[c].t = ctx[d].t
    /\ ctx[c].tm = ctx[d].tm

\* C1: whatever the token and the topology snapshot, calculate_natural_endpoints
\* returns the set whose only element is this node's broadcast address.
C1_SingletonSelf ==
    \A c \in Contexts :
        Calculated(c) =>
            /\ ctx[c].result.state = "ready"
            /\ ctx[c].result.value = {broadcast_address}
            /\ Cardinality(ctx[c].result.value) = 1

\* a calculation has returned for a snapshot that holds another node as well
C1_Witness ==
    \E c \in Contexts :
        /\ Calculated(c)
        /\ broadcast_address \in ctx[c].tm.nodes
        /\ ctx[c].tm.nodes # {broadcast_address}
        /\ ctx[c].t # 0

\* C2: get_replication_factor returns 1 for every instance and every snapshot,
\* and that is the size of every endpoint set calculate_natural_endpoints returned.
C2_ReplicationFactorOne ==
    \A c \in Contexts :
        Done(c, "get_replication_factor") =>
            /\ ctx[c].result = 1
            /\ \A d \in Contexts :
                   Calculated(d) /\ ctx[d].result.state = "ready" =>
                       Cardinality(ctx[d].result.value) = ctx[c].result

\* the factor was asked of an instance built with options, after a topology
\* change, while a calculation's result is at hand
C2_Witness ==
    \E c, d \in Contexts :
        /\ Done(c, "get_replication_factor")
        /\ DOMAIN ctx[c].this.config_options # {}
        /\ ctx[c].tm.epoch > 0
        /\ Calculated(d)

\* C3: no local strategy that carries a non-empty option mapping passes
\* configuration validation.
C3_OptionsRefused ==
    \A e \in strategies : DOMAIN e.options = {}

\* C4: validate_options raises nothing, whatever options the instance was
\* constructed with, and leaves the instance as it was constructed.
C4_ValidateNeverFails ==
    /\ \A r \in rejected : r.error # "InvalidConfiguration"
    /\ \A e \in strategies :
           /\ e.obj.config_options = e.options
           /\ e.obj.type = "local"
           /\ validate_options(e.obj).threw = "none"

\* an instance constructed with a non-empty option mapping went through validation
C4_Witness ==
    \E e \in strategies : DOMAIN e.options # {}

\* C5: calls of calculate_natural_endpoints on the same instance, token and
\* snapshot return the same endpoint set, whatever happened in between.
C5_Deterministic ==
    \A c, d \in Contexts :
        Calculated(c) /\ Calculated(d) /\ SameArguments(c, d) =>
            ctx[c].result = ctx[d].result

\* two calls on the same arguments have returned, and the topology has changed
\* since their snapshot was taken
C5_Witness ==
    \E c, d \in Contexts :
        /\ c # d
        /\ Calculated(c) /\ Calculated(d) /\ SameArguments(c, d)
        /\ topology.epoch > ctx[c].tm.epoch

\* C6: once static initialisation is over the registry holds the qualified and
\* the short name, both with the local_strategy factory, so that create under
\* either name gives the same instance of type local (a strategy holds nothing
\* but its type and its options, so equal instances behave alike).
C6_BothNamesSameFactory ==
    pc \in {"static_done", "main"} =>
        /\ <<"org.apache.cassandra.locator.LocalStrategy", "local_strategy">> \in classes
        /\ <<"LocalStrategy", "local_strategy">> \in classes
        /\ \A o \in ConfigOptions :
               LET q == create_object("org.apache.cassandra.locator.LocalStrategy", o)
                   n == create_object("LocalStrategy", o)
               IN  q = n /\ q.type = "local"
        /\ \A e, f \in strategies :
               /\ e.obj.type = "local"
               /\ e.options = f.options => e.obj = f.obj

\* the same options were used to create an instance under each of the two names
C6_Witness ==
    \E e, f \in strategies :
        /\ e.via = "org.apache.cassandra.locator.LocalStrategy"
        /\ f.via = "LocalStrategy"
        /\ e.options = f.options
        /\ DOMAIN e.options # {}

\* C7: against a snapshot with no node calculate_natural_endpoints does not
\* fail and returns the singleton of this node's address.
C7_EmptyTopologyExempt ==
    \A c \in Contexts :
        Calculated(c) /\ ctx[c].tm.nodes = {} =>
            /\ ctx[c].result.state = "ready"
            /\ ctx[c].result.value = {broadcast_address}

\* a calculation against the empty snapshot has returned
C7_Witness ==
    \E c \in Contexts : Calculated(c) /\ ctx[c].tm.nodes = {}

CalculationStep ==
    \E c \in Contexts :
        /\ ctx[c].pc = "invoked"
        /\ ctx[c].op = "calculate_natural_endpoints"
        /\ ctx'[c].pc = "returned"

\* C8: calculations that run concurrently on the same arguments return the
\* same endpoint set, and a calculation step writes neither the strategies,
\* nor the topology, nor the registry, nor the node's address.
C8_ConcurrentReadOnly ==
    /\ [](\A c, d \in Contexts :
             Calculated(c) /\ Calculated(d) /\ SameArguments(c, d)
             /\ (ctx[c].raced \/ ctx[d].raced)
                 => ctx[c].result.value = ctx[d].result.value)
    /\ [][CalculationStep =>
             UNCHANGED <<strategies, rejected, topology, classes,
                         startup_error, broadcast_address>>]_vars

\* two calculations on the same arguments overlapped and both have returned
C8_Witness ==
    \E c, d \in Contexts :
        /\ c # d
        /\ Calculated(c) /\ Calculated(d) /\ SameArguments(c, d)
        /\ ctx[c].raced

\* C9: every registered name has exactly one factory; a registration under a
\* name that is taken aborts start-up before anything is constructed; and the
\* two registrations of local_strategy never collide with each other.
C9_RegistryUnique ==
    /\ \A p, q \in classes : p[1] = q[1] => p = q
    /\ (startup_error # NoError) <=> (pc = "fatal")
    /\ pc = "fatal" => strategies = {} /\ rejected = {}
    /\ strategies # {} => pc = "main"
    /\ ~(startup_error.registered = "local_strategy"
         /\ startup_error.refused = "local_strategy")

\* a second claim on the name LocalStrategy was refused and start-up aborted
C9_Witness ==
    /\ pc = "fatal"
    /\ startup_error.name = "LocalStrategy"
    /\ startup_error.registered = "local_strategy"
    /\ startup_error.refused = "simple_strategy"
    /\ <<"org.apache.cassandra.locator.LocalStrategy", "local_strategy">> \in classes

\* C10: for the same token, get_natural_endpoints on any effective replication
\* map holds exactly the endpoint calculate_natural_endpoints returns on any
\* snapshot, and the future of the latter is ready when it is returned.
C10_SyncAgreesWithAsync ==
    \A c, d \in Contexts :
        Done(c, "get_natural_endpoints") /\ Calculated(d) /\ ctx[c].t = ctx[d].t =>
            /\ ctx[d].result.state = "ready"
            /\ Len(ctx[c].result) = 1
            /\ Elements(ctx[c].result) = ctx[d].result.value

\* both paths have returned for one token, the map bound to an older epoch
\* than the snapshot of the calculation
C10_Witness ==
    \E c, d \in Contexts :
        /\ Done(c, "get_natural_endpoints") /\ Calculated(d)
        /\ ctx[c].t = ctx[d].t
        /\ ctx[c].tm.epoch < ctx[d].tm.epoch
        /\ ctx[c].tm.nodes # ctx[d].tm.nodes

====
